---- MODULE Spec2Model ----
(***************************************************************************)
(* A state-machine model of _CmdLineTransport (src/cmdline.py): the        *)
(* terminal transport that reads lines from a non-blocking input           *)
(* descriptor, queues encoded text for the output descriptor, and saves    *)
(* and restores the terminal attributes.                                   *)
(*                                                                         *)
(* The event loop is the environment: it keeps a FIFO of call_soon         *)
(* handles, a reader registration and a writer registration, and runs one  *)
(* callback at a time.  Calls made by the consumer (write, close,          *)
(* set_protocol) are atomic steps between callbacks.                       *)
(***************************************************************************)
EXTENDS Integers, Sequences, FiniteSets, TLC

\* ------------------------------------------------------------------ bounds

\* Total number of bytes moved in a behaviour: the bytes os.read returns
\* plus the encoded bytes passed to write().
MaxBytes == 3

\* The slice the write-ready callback offers to the sink.  The source offers
\* raw_data[:4096]; the model scales the slice down so that a chunk longer
\* than the slice fits into MaxBytes.
WriteSize == 2

\* --------------------------------------------------------------- constants

\* os.read(self._input.fd, 4096)
ReadSize == 4096

\* b'\n'
NL == 10

\* The bytes of the model: newline, ASCII 'a', and the two bytes of the
\* UTF-8 encoding of U+00E9 (0xC3 0xA9): a lead byte and a continuation.
Bytes == {NL, 97, 195, 169}

\* The characters write() is given: 'a' and U+00E9.
TextChars == {97, 233}

None == "None"

Protocols == {"p1"}

\* ----------------------------------------------------------------- helpers

Min(a, b) == IF a <= b THEN a ELSE b

Take(s, n) == SubSeq(s, 1, Min(n, Len(s)))

Drop(s, n) == SubSeq(s, Min(n, Len(s)) + 1, Len(s))

SeqsUpTo(S, n) == UNION {[1..k -> S] : k \in 0..n}

RECURSIVE Flatten(_)
Flatten(ss) == IF ss = <<>> THEN <<>> ELSE Head(ss) \o Flatten(Tail(ss))

IsPrefix(s, t) == Len(s) <= Len(t) /\ SubSeq(t, 1, Len(s)) = s

\* ------------------------------------------------------------------ codecs

\* codecs.utf_8_decode(data, 'ignore', final): the decoded characters and
\* the bytes left undecoded.  An invalid byte is dropped; an incomplete
\* sequence at the end is dropped when final, kept otherwise.
RECURSIVE Utf8Decode(_, _)
Utf8Decode(data, final) ==
    IF data = <<>> THEN [text |-> <<>>, pending |-> <<>>]
    ELSE IF Head(data) < 128
         THEN LET r == Utf8Decode(Tail(data), final)
              IN  [text |-> <<Head(data)>> \o r.text, pending |-> r.pending]
    ELSE IF Head(data) = 195
         THEN IF Len(data) = 1
              THEN IF final THEN [text |-> <<>>, pending |-> <<>>]
                            ELSE [text |-> <<>>, pending |-> data]
              ELSE IF data[2] = 169
                   THEN LET r == Utf8Decode(Drop(data, 2), final)
                        IN  [text |-> <<233>> \o r.text, pending |-> r.pending]
                   ELSE Utf8Decode(Tail(data), final)
    ELSE Utf8Decode(Tail(data), final)

\* IncrementalDecoder.decode(input, final) of the decoder made by
\* codecs.getincrementaldecoder(encoding)(errors='ignore'): the bytes kept
\* from the last call are put in front of the input.
IncrementalDecode(buffer, input, final) ==
    Utf8Decode(buffer \o input, final)

\* IncrementalEncoder.encode(data, True) followed by reset(): UTF-8.
RECURSIVE Encode(_)
Encode(text) ==
    IF text = <<>> THEN <<>>
    ELSE (IF Head(text) < 128 THEN <<Head(text)>> ELSE <<195, 169>>)
         \o Encode(Tail(text))

\* ------------------------------------------------------------------- state

VARIABLES
    protocol,       \* self._protocol: None or a protocol
    input_buf,      \* ''.join(self._input_buf): decoded text of the open line
    input_decoder,  \* bytes the incremental decoder keeps between calls
    output_buf,     \* self._output_buf: the queue of encoded chunks
    saved_attr,     \* self._saved_attr: <<>> (None) or <<attributes>>
    isatty,         \* self._input.isatty
    termAttr,       \* the terminal's attributes: <<>> when input is no tty
    attrBefore,     \* the terminal's attributes before the transport was built
    canWatchIn,     \* whether the loop accepts add_reader on the input fd
    canWatchOut,    \* whether the loop accepts add_writer on the output fd
    readerReg,      \* the loop's reader registration for the input fd
    writerReg,      \* the loop's writer registration for the output fd
    ready,          \* the loop's FIFO of call_soon handles
    delivered,      \* the calls the loop has made on protocols, in order
    started,        \* the loop has run a callback since construction
    inputStream,    \* every byte os.read has returned, in order
    eof,            \* os.read has returned zero bytes
    written,        \* the encoded texts of all write() calls, concatenated
    sink,           \* every byte os.write has accepted, in order
    closes,         \* number of close() calls (2 stands for two or more)
    restores,       \* number of tcsetattr calls close() made (2: two or more)
    raised,         \* the exception the step just taken ended with, or None
    probe           \* a call of the stream resolver: its arguments and result

vars == <<protocol, input_buf, input_decoder, output_buf, saved_attr, isatty,
          termAttr, attrBefore, canWatchIn, canWatchOut, readerReg, writerReg,
          ready, delivered, started, inputStream, eof, written, sink,
          closes, restores, raised, probe>>

readVars == <<input_buf, input_decoder, inputStream, eof>>

writeVars == <<output_buf, written, sink>>

termVars == <<saved_attr, isatty, termAttr, attrBefore, restores>>

loopVars == <<canWatchIn, canWatchOut>>

\* The transport takes no step during a call of the stream resolver.
NoProbe == [op |-> "none"]

\* ------------------------------------------------------ terminal attributes

\* The attributes a terminal has before the transport is built: canonical
\* mode, with the VMIN and VTIME slots holding the cooked-mode values.
InitialAttrs == {[icanon |-> TRUE, vmin |-> 4, vtime |-> 0]}

\* attr[3] &= ~ICANON; attr[6][VMIN] = 1; attr[6][VTIME] = 0
RawMode(attr) == [attr EXCEPT !.icanon = FALSE, !.vmin = 1, !.vtime = 0]

\* ---------------------------------------------------------- the event loop

Handle(kind, to, arg) == [kind |-> kind, to |-> to, arg |-> arg]

\* A loop that runs the newest handle first.
CallSoonAtFront(queue, handle) == <<handle>> \o queue

\* loop.call_soon(callback, *args): the handle joins the FIFO at its end.
CallSoon(queue, handle) == Append(queue, handle)

\* A constructor that calls connection_made itself instead of scheduling it.
ConstructorCallsSync(p) ==
    [ready     |-> <<Handle("_add_reader", "transport", <<>>)>>,
     delivered |-> <<Handle("connection_made", p, <<>>)>>]

\* The last two statements of __init__: both calls are only scheduled.
ConstructorCalls(p) ==
    [ready     |-> CallSoon(CallSoon(<<>>,
                        Handle("connection_made", p, <<>>)),
                        Handle("_add_reader", "transport", <<>>)),
     delivered |-> <<>>]

\* --------------------------------------------------------------------- Init

Init ==
    /\ protocol \in Protocols
    /\ input_buf = <<>>
    /\ input_decoder = <<>>
    /\ output_buf = <<>>
    /\ isatty \in BOOLEAN
    /\ attrBefore \in (IF isatty THEN {<<a>> : a \in InitialAttrs} ELSE {<<>>})
    /\ saved_attr = attrBefore
    /\ termAttr = (IF isatty THEN <<RawMode(attrBefore[1])>> ELSE <<>>)
    /\ canWatchIn \in BOOLEAN
    /\ canWatchOut \in BOOLEAN
    /\ readerReg = FALSE
    /\ writerReg = FALSE
    /\ ready = ConstructorCalls(protocol).ready
    /\ delivered = ConstructorCalls(protocol).delivered
    /\ started = FALSE
    /\ inputStream = <<>>
    /\ eof = FALSE
    /\ written = <<>>
    /\ sink = <<>>
    /\ closes = 0
    /\ restores = 0
    /\ raised = None
    /\ probe = NoProbe

\* ------------------------------------------------------- deferred callbacks

\* The loop runs the handle at the head of its FIFO: a protocol method.
DeliverToProtocol ==
    /\ ready # <<>>
    /\ Head(ready).kind \in {"connection_made", "data_received"}
    /\ delivered' = Append(delivered, Head(ready))
    /\ ready' = Tail(ready)
    /\ started' = TRUE
    /\ raised' = None
    /\ UNCHANGED <<protocol, readVars, writeVars, termVars, loopVars,
                   readerReg, writerReg, closes, probe>>

\* What _add_reader ends with when add_reader raises PermissionError:
\* 'except PermissionError: pass'.
AddReaderRaises == None

\* _add_reader, run from the loop's FIFO; PermissionError is swallowed.
AddReader ==
    /\ ready # <<>>
    /\ Head(ready).kind = "_add_reader"
    /\ ready' = Tail(ready)
    /\ readerReg' = (readerReg \/ canWatchIn)
    /\ started' = TRUE
    /\ raised' = (IF canWatchIn THEN None ELSE AddReaderRaises)
    /\ UNCHANGED <<protocol, readVars, writeVars, termVars, loopVars,
                   writerReg, delivered, closes, probe>>

\* ---------------------------------------------------------------- read path

\* Position of the first newline of raw_buf, 0 when it holds none.
FirstNL(raw_buf) ==
    IF \E i \in 1..Len(raw_buf) : raw_buf[i] = NL
    THEN CHOOSE i \in 1..Len(raw_buf) :
             /\ raw_buf[i] = NL
             /\ \A j \in 1..(i - 1) : raw_buf[j] # NL
    ELSE 0

\* raw_line, sep, raw_buf = raw_buf.partition(b'\n')
Partition(raw_buf) ==
    LET i == FirstNL(raw_buf)
    IN  IF i = 0
        THEN [line |-> raw_buf, sep |-> FALSE, rest |-> <<>>]
        ELSE [line |-> SubSeq(raw_buf, 1, i - 1), sep |-> TRUE,
              rest |-> SubSeq(raw_buf, i + 1, Len(raw_buf))]

\* The while loop of _input_available.  Each complete line is decoded
\* (final) onto the accumulator, the decoder is reset, the joined
\* accumulator is scheduled as data_received and the accumulator cleared.
\* self._protocol.data_received is looked up when the call is scheduled:
\* with no protocol the lookup raises AttributeError and the callback ends
\* there, the accumulator holding the line and the rest of the read dropped.
RECURSIVE SplitLoop(_, _, _, _, _)
SplitLoop(raw_buf, buf, dec, queue, proto) ==
    LET p == Partition(raw_buf)
    IN  IF ~p.sep
        THEN [raw_line |-> p.line, input_buf |-> buf, decoder |-> dec,
              ready |-> queue, raised |-> FALSE]
        ELSE LET d == IncrementalDecode(dec, p.line, TRUE)
             IN  IF proto = None
                 THEN [raw_line |-> p.line, input_buf |-> buf \o d.text,
                       decoder |-> <<>>, ready |-> queue, raised |-> TRUE]
                 ELSE SplitLoop(p.rest, <<>>, <<>>,
                          CallSoon(queue,
                              Handle("data_received", proto, buf \o d.text)),
                          proto)

\* The whole of _input_available on the bytes os.read returned: the loop,
\* then the remainder after the last newline is decoded (not final) onto
\* the accumulator.
InputHandler(raw_buf, buf, dec, queue, proto) ==
    LET l == SplitLoop(raw_buf, buf, dec, queue, proto)
    IN  IF l.raised \/ l.raw_line = <<>>
        THEN l
        ELSE LET d == IncrementalDecode(l.decoder, l.raw_line, FALSE)
             IN  [l EXCEPT !.input_buf = l.input_buf \o d.text,
                           !.decoder = d.pending]

\* What os.read can return: up to ReadSize of the bytes still to come, or
\* nothing at end of file.
Reads == SeqsUpTo(Bytes, MaxBytes)

\* The loop calls _input_available: the input descriptor is readable.
InputAvailable(raw_buf) ==
    /\ readerReg
    /\ Len(raw_buf) <= ReadSize
    /\ Len(inputStream) + Len(written) + Len(raw_buf) <= MaxBytes
    /\ eof => raw_buf = <<>>
    /\ LET r == InputHandler(raw_buf, input_buf, input_decoder, ready,
                             protocol)
       IN  /\ input_buf' = r.input_buf
           /\ input_decoder' = r.decoder
           /\ ready' = r.ready
           /\ raised' = (IF r.raised THEN "AttributeError" ELSE None)
    /\ inputStream' = inputStream \o raw_buf
    /\ eof' = (eof \/ raw_buf = <<>>)
    /\ started' = TRUE
    /\ UNCHANGED <<protocol, writeVars, termVars, loopVars, readerReg,
                   writerReg, delivered, closes, probe>>

\* --------------------------------------------------------------- write path

\* A re-queue that puts the remainder behind the chunks still waiting.
RequeueAtBack(queue, rest) == Append(queue, rest)

\* self._output_buf.appendleft(raw_data[bytes_written:])
Requeue(queue, rest) == <<rest>> \o queue

\* A write() that queues the chunk and does not ask for the writer.
AddWriterForgotten(reg) == reg

\* _add_writer: add_writer on the output descriptor; PermissionError is
\* swallowed.
AddWriter(reg) == reg \/ canWatchOut

\* A _add_writer that lets the PermissionError out.
AddWriterPropagates == "PermissionError"

\* What _add_writer ends with when add_writer raises PermissionError: the
\* except clause prints a message and returns.
AddWriterRaises == None

Texts == {t \in SeqsUpTo(TextChars, MaxBytes) : Len(Encode(t)) <= MaxBytes}

\* A write() that has lost its 'if not raw_data: return'.
EnqueueAlways(queue, raw_data) == Append(queue, raw_data)

\* if not raw_data: return; self._output_buf.append(raw_data)
Enqueue(queue, raw_data) ==
    IF raw_data = <<>> THEN queue ELSE Append(queue, raw_data)

\* write(data)
Write(data) ==
    /\ Len(inputStream) + Len(written) + Len(Encode(data)) <= MaxBytes
    /\ LET raw_data == Encode(data)
       IN  /\ output_buf' = Enqueue(output_buf, raw_data)
           /\ writerReg' = (IF raw_data = <<>> THEN writerReg
                            ELSE AddWriter(writerReg))
           /\ raised' = (IF raw_data = <<>> \/ canWatchOut THEN None
                         ELSE AddWriterRaises)
    /\ written' = written \o Encode(data)
    /\ UNCHANGED <<protocol, readVars, sink, termVars, loopVars, readerReg,
                   ready, delivered, started, closes, probe>>

\* write_eof(): the encoder is given the empty text with final=True, which
\* for UTF-8 yields no bytes.
WriteEof ==
    /\ LET raw_data == Encode(<<>>)
       IN  /\ output_buf' = Enqueue(output_buf, raw_data)
           /\ writerReg' = (IF raw_data = <<>> THEN writerReg
                            ELSE AddWriter(writerReg))
           /\ raised' = (IF raw_data = <<>> \/ canWatchOut THEN None
                         ELSE AddWriterRaises)
           /\ written' = written \o raw_data
    /\ UNCHANGED <<protocol, readVars, sink, termVars, loopVars, readerReg,
                   ready, delivered, started, closes, probe>>

\* can_write_eof()
can_write_eof == TRUE

\* A write-ready turn that finds the queue empty and leaves the writer in.
RemoveWriterForgotten(reg) == reg

\* self._loop.remove_writer(self._output.fd)
RemoveWriter(reg) == FALSE

\* A write-ready turn that hands the whole chunk to os.write.
OfferedWhole(raw_data) == raw_data

\* raw_data[:4096]: what one write-ready turn hands to os.write.
Offered(raw_data) == Take(raw_data, WriteSize)

\* A write-ready turn that gives up the chunk when nothing was accepted.
OutputTurnDropsUnwritten(queue, bytes_written) ==
    LET raw_data == Head(queue)
    IN  IF raw_data = <<>> \/ bytes_written = 0
           \/ bytes_written >= Len(raw_data)
        THEN Tail(queue)
        ELSE Requeue(Tail(queue), Drop(raw_data, bytes_written))

\* The queue after a write-ready turn that found it non-empty: the front
\* chunk is popped; an empty chunk is dropped; a chunk written in full is
\* gone; otherwise what os.write did not accept goes back to the front.
OutputTurn(queue, bytes_written) ==
    LET raw_data == Head(queue)
    IN  IF raw_data = <<>> \/ bytes_written >= Len(raw_data)
        THEN Tail(queue)
        ELSE Requeue(Tail(queue), Drop(raw_data, bytes_written))

\* The loop calls _output_available: the output descriptor is writable and
\* os.write accepts bytes_written of the bytes offered.
OutputAvailable(bytes_written) ==
    /\ writerReg
    /\ started' = TRUE
    /\ raised' = None
    /\ IF output_buf = <<>>
       THEN /\ bytes_written = 0
            /\ writerReg' = RemoveWriter(writerReg)
            /\ UNCHANGED <<output_buf, sink>>
       ELSE /\ bytes_written <= Len(Offered(Head(output_buf)))
            /\ sink' = sink \o Take(Offered(Head(output_buf)), bytes_written)
            /\ output_buf' = OutputTurn(output_buf, bytes_written)
            /\ UNCHANGED writerReg
    /\ UNCHANGED <<protocol, readVars, written, termVars, loopVars,
                   readerReg, ready, delivered, closes, probe>>

\* ------------------------------------------------------ consumer operations

\* A close() that leaves the terminal in the mode it is in.
SkipRestore(saved, attr) == attr

\* termios.tcsetattr(self._input.fd, termios.TCSAFLUSH, self._saved_attr)
Restore(saved, attr) == saved

\* close()
Close ==
    /\ protocol' = None
    /\ IF saved_attr # <<>>
       THEN /\ termAttr' = Restore(saved_attr, termAttr)
            /\ restores' = Min(restores + 1, 2)
       ELSE UNCHANGED <<termAttr, restores>>
    /\ closes' = Min(closes + 1, 2)
    /\ raised' = None
    /\ UNCHANGED <<readVars, writeVars, saved_attr, isatty, attrBefore,
                   loopVars, readerReg, writerReg, ready, delivered, started,
                   probe>>

\* set_protocol(protocol)
SetProtocol(p) ==
    /\ protocol' = p
    /\ raised' = None
    /\ UNCHANGED <<readVars, writeVars, termVars, loopVars, readerReg,
                   writerReg, ready, delivered, started, closes, probe>>

\* The operations that are declared and not implemented.
UnimplementedOps == {"get_write_buffer_size", "set_write_buffer_limits",
                     "abort", "pause_reading", "resume_reading"}

\* An interpreter that has compiled the assert statements out.
AssertStripped == None

\* assert False
AssertFalse == "AssertionError"

\* get_write_buffer_size(), set_write_buffer_limits(), abort(),
\* pause_reading(), resume_reading(): the body is 'assert False'.
Unimplemented(op) ==
    /\ raised' = AssertFalse
    /\ UNCHANGED <<protocol, readVars, writeVars, termVars, loopVars,
                   readerReg, writerReg, ready, delivered, started, closes,
                   probe>>

\* is_closing()
is_closing == protocol = None

\* get_protocol()
get_protocol == protocol

\* --------------------------------------------------------------------- Next

Next ==
    \/ DeliverToProtocol
    \/ AddReader
    \/ \E raw_buf \in Reads : InputAvailable(raw_buf)
    \/ \E data \in Texts : Write(data)
    \/ WriteEof
    \/ \E n \in 0..MaxBytes : OutputAvailable(n)
    \/ Close
    \/ \E p \in Protocols : SetProtocol(p)
    \/ \E op \in UnimplementedOps : Unimplemented(op)

Spec == Init /\ [][Next]_vars

\* The loop runs every callback that call_soon queued, and keeps calling the
\* write-ready callback of a registered writer; a sink that is writable
\* accepts at least one byte.
LoopFairness ==
    /\ WF_vars(DeliverToProtocol)
    /\ WF_vars(AddReader)
    /\ WF_vars(\E n \in 0..MaxBytes : OutputAvailable(n))
    /\ WF_vars(\E n \in 1..MaxBytes : OutputAvailable(n))

FairSpec == Spec /\ LoopFairness

\* ------------------------------------------------- vocabulary of the claims

\* Every call on a protocol the transport has scheduled so far, in the order
\* of scheduling: the ones already made, then the ones still in the FIFO.
IsProtocolCall(h) == h.kind \in {"connection_made", "data_received",
                                 "eof_received"}

Scheduled == SelectSeq(delivered \o ready, IsProtocolCall)

IsDataReceived(h) == h.kind = "data_received"

IsConnectionMade(h) == h.kind = "connection_made"

\* The texts of the data_received calls scheduled so far.
ArgsOf(hs) == [i \in 1..Len(hs) |-> hs[i].arg]

ScheduledLines == ArgsOf(SelectSeq(Scheduled, IsDataReceived))

\* The positions of the newline bytes of a stream; the k-th of them (0 for
\* k = 0); the bytes between the (k-1)-th and the k-th; the bytes after the
\* last.
Newlines(stream) == {i \in 1..Len(stream) : stream[i] = NL}

NthNewline(stream, k) ==
    IF k = 0 THEN 0
    ELSE CHOOSE i \in Newlines(stream) :
             Cardinality({j \in Newlines(stream) : j < i}) = k - 1

LineBytes(stream, k) ==
    SubSeq(stream, NthNewline(stream, k - 1) + 1, NthNewline(stream, k) - 1)

OpenLineBytes(stream) ==
    SubSeq(stream,
           NthNewline(stream, Cardinality(Newlines(stream))) + 1,
           Len(stream))

\* ------------------------------------------------------------------ claims

\* The number of data_received calls scheduled equals the number of newline
\* bytes read so far, the k-th call carries the decoding of the bytes
\* between the (k-1)-th and the k-th newline, and the bytes after the last
\* newline are held by the accumulator and the decoder, not dispatched.
Framed ==
    /\ Len(ScheduledLines) = Cardinality(Newlines(inputStream))
    /\ \A k \in 1..Len(ScheduledLines) :
           ScheduledLines[k] =
               Utf8Decode(LineBytes(inputStream, k), TRUE).text
    /\ input_buf = Utf8Decode(OpenLineBytes(inputStream), FALSE).text
    /\ input_decoder = Utf8Decode(OpenLineBytes(inputStream), FALSE).pending

\* C1 as stated: line framing holds of every byte stream the read-ready
\* callback has been handed, in every reachable state.
LineFraming == Framed

\* Line framing holds for as long as close() has not been called.
LineFramingUntilClose == closes = 0 => Framed

\* The lines the transport dispatches when it is handed a stream in a
\* single read.
LinesOfSingleRead(stream) ==
    ArgsOf(InputHandler(stream, <<>>, <<>>, <<>>,
                        CHOOSE p \in Protocols : TRUE).ready)

\* C2 as stated: whatever the reads the stream arrived in, the lines
\* dispatched are those of the same stream arriving in a single read.
SplitIndependence == ScheduledLines = LinesOfSingleRead(inputStream)

\* Split independence holds for as long as close() has not been called.
SplitIndependenceUntilClose ==
    closes = 0 => ScheduledLines = LinesOfSingleRead(inputStream)

\* C3: the bytes the sink has accepted are a prefix of the encoded texts in
\* call order, and are all of them once the outbound queue is empty.
SinkIsPrefixOfWritten ==
    /\ IsPrefix(sink, written)
    /\ sink \o Flatten(output_buf) = written
    /\ output_buf = <<>> => sink = written

\* More bytes than one write-ready turn offers were written, and a short
\* write ended inside a multi-byte character: the sink holds the lead byte
\* and the remainder is back at the front of the queue.
SinkIsPrefixWitness ==
    /\ Len(written) > WriteSize
    /\ sink # <<>>
    /\ sink[Len(sink)] = 195
    /\ output_buf # <<>>
    /\ Head(output_buf)[1] = 169

\* C4 as stated: the writer is registered exactly when the queue is
\* non-empty.
WriterIffQueued == writerReg <=> output_buf # <<>>

\* C4 as amended: when the loop accepts the writer registration, a
\* non-empty queue has the writer registered; the callback that empties the
\* queue leaves the registration in place, and the registration is removed
\* only by a callback that finds the queue already empty.
WriterOutlivesQueue ==
    [][/\ (canWatchOut /\ output_buf' # <<>>) => writerReg'
       /\ (output_buf # <<>> /\ output_buf' = <<>>) => writerReg' = writerReg
       /\ (writerReg /\ ~writerReg') =>
              (output_buf = <<>> /\ output_buf' = <<>>)]_vars

\* The queue has drained into the sink and the writer is still registered.
WriterOutlivesQueueWitness ==
    /\ output_buf = <<>>
    /\ sink # <<>>
    /\ writerReg

\* C5: connection_made is scheduled exactly once, nothing has been
\* delivered before the loop runs its first callback, and the first call
\* delivered is connection_made.
ConnectionMadeFirstOnce ==
    /\ ~started => delivered = <<>>
    /\ Len(SelectSeq(Scheduled, IsConnectionMade)) = 1
    /\ delivered # <<>> => IsConnectionMade(delivered[1])

\* connection_made and then a line have been delivered.
ConnectionMadeWitness ==
    /\ Len(delivered) >= 2
    /\ IsConnectionMade(delivered[1])
    /\ IsDataReceived(delivered[2])

\* C6 as stated: once a read has returned zero bytes, the last call
\* scheduled is eof_received, preceded by a data_received carrying the
\* retained text when there is any.
EofFlushesThenEofReceived ==
    eof =>
        LET n == Len(Scheduled)
            open == Utf8Decode(OpenLineBytes(inputStream), TRUE).text
        IN  /\ n >= 1
            /\ Scheduled[n].kind = "eof_received"
            /\ open # <<>> =>
                   /\ n >= 2
                   /\ IsDataReceived(Scheduled[n - 1])
                   /\ Scheduled[n - 1].arg = open

\* C7: after close(), a tty has the attributes it had before the transport
\* was built; for a non-tty close() has made no terminal-attribute call.
RestoredAfterClose ==
    closes >= 1 =>
        IF isatty THEN termAttr = attrBefore
                  ELSE restores = 0 /\ termAttr = <<>>

\* close() has been called on a tty that the constructor had put into raw
\* mode.
RestoredAfterCloseWitness ==
    /\ closes >= 1
    /\ isatty
    /\ termAttr = attrBefore
    /\ termAttr # <<RawMode(attrBefore[1])>>

\* C8 as stated: on a tty, one or more close() calls make exactly one
\* restore.
RestoredExactlyOnce ==
    (isatty /\ closes >= 1) => restores = 1

\* C9 as stated: once close() has been called, is_closing() is true and
\* get_protocol() is None.
ClosedIsTerminal ==
    closes >= 1 => (is_closing /\ get_protocol = None)

\* C10 as stated: after close() no byte is read from the input descriptor
\* and no byte is written to the sink.
NoIOAfterClose ==
    [][closes >= 1 =>
          /\ inputStream' = inputStream
          /\ eof' = eof
          /\ sink' = sink]_vars

\* -------------------------------------------------- shutdown and the sink

ConnectionLostDelivered ==
    \E i \in 1..Len(delivered) : delivered[i].kind = "connection_lost"

\* The transport never closes its output descriptor. In test_write the write
\* end of the pipe is closed by recorded_output.close(), which runs once
\* run_until_complete(disconnect_future) has returned, and the future is
\* resolved by the protocol's connection_lost.
SinkSawEof == ConnectionLostDelivered

\* C11: everything written before close() reaches the sink, complete and in
\* call order, and then the sink observes end-of-output: whatever had been
\* written while the transport was open is, once close() was called,
\* eventually a prefix of what the sink holds, with the end-of-output seen.
WrittenBeforeCloseThenEof ==
    \A w \in {Encode(t) : t \in Texts} :
        [](closes = 0 /\ written = w
            => [](closes >= 1 => <>(IsPrefix(w, sink) /\ SinkSawEof)))

\* The part of C11 the transport does provide: where the loop accepted the
\* writer, every byte written, before close() or after it, reaches the sink.
WrittenIsFlushed == canWatchOut => <>[](sink = written /\ output_buf = <<>>)

\* C12: after close() the protocol eventually receives connection_lost(None).
ConnectionLostAfterClose == (closes >= 1) ~> ConnectionLostDelivered

\* ------------------------------------------ the unimplemented operations

\* C13: in every state of the transport each of the five unimplemented
\* operations can be invoked and the call ends with an error, and a step that
\* ends with that error leaves the outbound queue, the reader and writer
\* registrations and the protocol reference as they were.
UnimplementedFailLoudly ==
    /\ [](\A op \in UnimplementedOps :
            ENABLED (Unimplemented(op) /\ raised' = "AssertionError"))
    /\ [][raised' = "AssertionError"
            => UNCHANGED <<output_buf, readerReg, writerReg, protocol>>]_vars

\* An unimplemented operation was invoked on a closed transport that still
\* has queued output and a registered writer.
UnimplementedWitness ==
    /\ raised = "AssertionError"
    /\ closes >= 1
    /\ protocol = None
    /\ output_buf # <<>>
    /\ writerReg

\* ------------------------------------------------- the stream resolver _File

\* An attribute that is None is the empty tuple, one that is set is <<value>>.
Fds == 0..3

\* os.fstat(fd): descriptors 0 and 1 are the same file (a terminal opened
\* once), 2 is another file on that device, 3 has the inode number of 0 on
\* another device.
Fstat(fd) == [st_dev |-> IF fd = 3 THEN 2 ELSE 1,
              st_ino |-> IF fd = 2 THEN 11 ELSE 10]

\* A comparison that looks at the inode number only.
SameInodeNumber(stat1, stat2) == stat1.st_ino = stat2.st_ino

\* stat1.st_dev == stat2.st_dev and stat1.st_ino == stat2.st_ino
SameInode(stat1, stat2) ==
    stat1.st_dev = stat2.st_dev /\ stat1.st_ino = stat2.st_ino

\* The resolved descriptors: text, bytes and raw are view objects (named by
\* an identity) or None, fd is a descriptor number or None. The resolver
\* leaves at least one view set, and all three when there is a descriptor.
Files ==
    {f \in [text : {None, "t1", "t2"}, bytes : {None, "b1", "b2"},
            raw : {None, "r1", "r2"}, fd : {<<>>} \cup {<<n>> : n \in Fds}] :
        /\ f.text # None \/ f.bytes # None \/ f.raw # None
        /\ f.fd # <<>> => f.text # None /\ f.bytes # None /\ f.raw # None}

\* _File.__eq__(self, other), other being a _File.
FileEq(self, other) ==
    IF other = self THEN TRUE
    ELSE IF self.text # None /\ other.text = self.text THEN TRUE
    ELSE IF self.bytes # None /\ other.bytes = self.bytes THEN TRUE
    ELSE IF self.raw # None /\ other.raw = self.raw THEN TRUE
    ELSE IF self.fd = <<>> \/ other.fd = <<>> THEN FALSE
    ELSE IF other.fd = self.fd THEN TRUE
    ELSE SameInode(Fstat(self.fd[1]), Fstat(other.fd[1]))

\* os.device_encoding(fd): descriptor 0 is a terminal with a code page, the
\* others are not terminals.
DeviceEncoding(fd) == IF fd = 0 THEN "cp437" ELSE None

\* A resolver that asks the device before the text layer.
DetermineEncodingDeviceFirst(encoding, text, fd) ==
    LET e1 == encoding
        e2 == IF e1 = None /\ fd # <<>> THEN DeviceEncoding(fd[1]) ELSE e1
        e3 == IF e2 = None /\ text # <<>> THEN text[1] ELSE e2
    IN  IF e3 = None THEN "utf-8" ELSE e3

\* _File._determine_encoding: encoding is the hint, text is the text view's
\* encoding attribute when there is a text view, fd the descriptor.
DetermineEncoding(encoding, text, fd) ==
    LET e1 == encoding
        e2 == IF e1 = None /\ text # <<>> THEN text[1] ELSE e1
        e3 == IF e2 = None /\ fd # <<>> THEN DeviceEncoding(fd[1]) ELSE e2
    IN  IF e3 = None THEN "utf-8" ELSE e3

O_RDONLY == 0
O_WRONLY == 1
O_RDWR == 2

MaxMode == 3

\* Mode strings, as sequences of characters; b stands for every character
\* that _accmode does not look at.
ModeChars == {"r", "w", "x", "a", "+", "b"}
Modes == SeqsUpTo(ModeChars, MaxMode)

Contains(mode, c) == \E i \in 1..Len(mode) : mode[i] = c

\* for i, c in enumerate('rwxa+'): if c in mode: flags |= 1 << i
Flags(mode) ==
    (IF Contains(mode, "r") THEN 1 ELSE 0)
    + (IF Contains(mode, "w") THEN 2 ELSE 0)
    + (IF Contains(mode, "x") THEN 4 ELSE 0)
    + (IF Contains(mode, "a") THEN 8 ELSE 0)
    + (IF Contains(mode, "+") THEN 16 ELSE 0)

\* A table that has lost its 'x+' line.
AccmodeTableWithoutXPlus ==
    {<<1, O_RDONLY>>, <<2, O_WRONLY>>, <<4, O_WRONLY>>, <<8, O_WRONLY>>,
     <<17, O_RDWR>>, <<18, O_RDWR>>, <<24, O_RDWR>>}

\* The dictionary of _accmode: flags and the access mode they stand for.
AccmodeTable ==
    {<<1, O_RDONLY>>, <<2, O_WRONLY>>, <<4, O_WRONLY>>, <<8, O_WRONLY>>,
     <<17, O_RDWR>>, <<18, O_RDWR>>, <<20, O_RDWR>>, <<24, O_RDWR>>}

\* _accmode(mode): the access mode, or ValueError("invalid mode ...") when
\* the table has no entry for the flags.
Accmode(mode) ==
    LET hits == {e \in AccmodeTable : e[1] = Flags(mode)}
    IN  IF hits = {}
        THEN [raised |-> "ValueError", accmode |-> <<>>]
        ELSE [raised |-> None, accmode |-> <<(CHOOSE e \in hits : TRUE)[2]>>]

\* _File._determine_mode(mode): mode is the hint (<<>> for None), fdflags the
\* access mode fcntl reports for the descriptor (<<>> when fd is None).
DetermineMode(mode, fdflags) ==
    IF mode = <<>>
    THEN LET accmode == IF fdflags = <<>> THEN O_RDWR ELSE fdflags[1]
         IN  [raised |-> None,
              mode |-> << <<<<"r", "b">>, <<"w", "b">>,
                            <<"r", "+", "b">> >>[accmode + 1] >>,
              accmode |-> <<accmode>>]
    ELSE LET a == Accmode(mode[1])
         IN  IF a.raised # None
             THEN [raised |-> a.raised, mode |-> <<>>, accmode |-> <<>>]
             ELSE [raised |-> None,
                   mode |-> <<IF Contains(mode[1], "b") THEN mode[1]
                              ELSE Append(mode[1], "b")>>,
                   accmode |-> a.accmode]

\* The calls of the resolver that are examined, before they are made.
EqCalls == {[op |-> "eq", args |-> [self |-> f, other |-> g], out |-> <<>>] :
                f \in Files, g \in Files}

EncodingCalls ==
    {[op |-> "encoding", args |-> [encoding |-> e, text |-> t, fd |-> d],
      out |-> <<>>] :
        e \in {None, "latin-1"}, t \in {<<>>, <<None>>, <<"ascii">>},
        d \in {<<>>} \cup {<<n>> : n \in Fds}}

ModeCalls ==
    {[op |-> "mode", args |-> [mode |-> m, fdflags |-> a], out |-> <<>>] :
        m \in {<<>>} \cup {<<h>> : h \in Modes},
        a \in {<<>>, <<O_RDONLY>>, <<O_WRONLY>>, <<O_RDWR>>}}

\* A view object: src tells whether it came with the handle or was built by
\* the resolver, mode is its mode attribute (<<>> when it has none), over
\* names the object of the layer directly below that it wraps (None when it
\* wraps no object of that layer).
View(src, mode, over) == [src |-> src, mode |-> mode, over |-> over]

\* The mode attributes a view of a handle can have: none, 'rb', 'wb', 'rb+',
\* and 'rwb', which socket.SocketIO reports and _accmode refuses.
ViewModes == {<<>>, << <<"r", "b">> >>, << <<"w", "b">> >>,
              << <<"r", "b", "+">> >>, << <<"r", "w", "b">> >>}

\* The views _maybe_text, _maybe_bytes and _maybe_raw take from a handle: a
\* view is absent or the handle's own object, which wraps the handle's view
\* directly below when there is one.
HandleViews(lower) ==
    {<<>>} \cup {<<View("handle", m, IF lower = <<>> THEN None ELSE "handle")>> :
                    m \in ViewModes}

\* The handles: their views, the access mode of the descriptor (<<>> when
\* fileno() fails) and whether the raw view can seek. A handle has at least
\* one view.
Handles ==
    {h \in [text : HandleViews(<<>>) \cup HandleViews(<<0>>),
            bytes : HandleViews(<<>>) \cup HandleViews(<<0>>),
            raw : HandleViews(<<>>),
            fd : {<<>>, <<O_RDONLY>>, <<O_WRONLY>>, <<O_RDWR>>},
            seekable : BOOLEAN] :
        /\ h.text # <<>> \/ h.bytes # <<>> \/ h.raw # <<>>
        /\ h.text \in HandleViews(h.bytes)
        /\ h.bytes \in HandleViews(h.raw)}

\* The mode hints the resolver is called with: none, 'r', 'w', 'r+', and
\* 'rr', which _accmode accepts and io.open refuses.
ResolveHints == {<<>>, << <<"r">> >>, << <<"w">> >>, << <<"r", "+">> >>,
                 << <<"r", "r">> >>}

\* io.open refuses a mode that repeats a character.
IoOpenAccepts(mode) ==
    \A i, j \in 1..Len(mode) : mode[i] = mode[j] => i = j

\* The mode attribute of the FileIO that io.open(fd, mode, buffering=0)
\* returns.
FileIOMode(accmode) ==
    << <<"r", "b">>, <<"w", "b">>, <<"r", "b", "+">> >>[accmode + 1]

\* A view has to be built when it is missing, has no mode attribute, or its
\* mode stands for another access mode; _accmode may refuse its mode.
ModeRefused(view) ==
    /\ view # <<>>
    /\ view[1].mode # <<>>
    /\ Accmode(view[1].mode[1]).raised # None

Mismatch(view, accmode) ==
    \/ view = <<>>
    \/ view[1].mode = <<>>
    \/ Accmode(view[1].mode[1]).accmode # <<accmode>>

\* What the fd-less branches do: take mode and access mode from the view
\* when it has a mode attribute.
ModeFromView(st, view) ==
    IF view[1].mode = <<>> THEN st
    ELSE IF ModeRefused(view) THEN [st EXCEPT !.raised = "ValueError"]
    ELSE [st EXCEPT !.mode = view[1].mode[1],
                    !.accmode = Accmode(view[1].mode[1]).accmode[1]]

\* _File._maybe_raw_from_fd
MaybeRawFromFd(st) ==
    IF st.raised # None THEN st
    ELSE IF st.fd # <<>>
    THEN IF st.raw = <<>> \/ st.raw[1].mode = <<>>
         THEN IF IoOpenAccepts(st.mode)
              THEN [st EXCEPT !.raw = <<View("built", <<FileIOMode(st.accmode)>>,
                                             None)>>]
              ELSE [st EXCEPT !.raised = "ValueError"]
         ELSE IF ModeRefused(st.raw) THEN [st EXCEPT !.raised = "ValueError"]
         ELSE IF Mismatch(st.raw, st.accmode)
         THEN IF IoOpenAccepts(st.mode)
              THEN [st EXCEPT !.raw = <<View("built", <<FileIOMode(st.accmode)>>,
                                             None)>>]
              ELSE [st EXCEPT !.raised = "ValueError"]
         ELSE st
    ELSE IF st.raw # <<>> THEN ModeFromView(st, st.raw)
    ELSE st

\* _File._maybe_bytes_from_raw: the view built is a BufferedReader, Writer or
\* Random, whose mode is that of the raw view, or a BufferedRWPair, which has
\* no mode attribute.
MaybeBytesFromRaw(st) ==
    IF st.raised # None THEN st
    ELSE IF st.raw # <<>>
    THEN IF ModeRefused(st.bytes) THEN [st EXCEPT !.raised = "ValueError"]
         ELSE IF Mismatch(st.bytes, st.accmode)
         THEN [st EXCEPT !.bytes =
                    <<View("built",
                           IF st.accmode = O_RDWR /\ ~st.seekable THEN <<>>
                           ELSE st.raw[1].mode,
                           st.raw[1].src)>>]
         ELSE st
    ELSE IF st.bytes # <<>> THEN ModeFromView(st, st.bytes)
    ELSE st

\* _File._maybe_text_from_bytes: the TextIOWrapper built has no mode
\* attribute.
MaybeTextFromBytes(st) ==
    IF st.raised # None THEN st
    ELSE IF st.bytes # <<>>
    THEN IF ModeRefused(st.text) THEN [st EXCEPT !.raised = "ValueError"]
         ELSE IF Mismatch(st.text, st.accmode)
         THEN [st EXCEPT !.text = <<View("built", <<>>, st.bytes[1].src)>>]
         ELSE st
    ELSE IF st.text # <<>> THEN ModeFromView(st, st.text)
    ELSE st

\* The last four statements of _File.__init__ for the views and descriptor
\* taken from handle h and the mode hint.
Resolve(h, hint) ==
    LET m == DetermineMode(hint, h.fd)
    IN  IF m.raised # None
        THEN [raised |-> m.raised, text |-> h.text, bytes |-> h.bytes,
              raw |-> h.raw, fd |-> h.fd, seekable |-> h.seekable,
              mode |-> <<>>, accmode |-> O_RDWR]
        ELSE MaybeTextFromBytes(MaybeBytesFromRaw(MaybeRawFromFd(
                [raised |-> None, text |-> h.text, bytes |-> h.bytes,
                 raw |-> h.raw, fd |-> h.fd, seekable |-> h.seekable,
                 mode |-> m.mode[1], accmode |-> m.accmode[1]])))

ResolveCalls ==
    {[op |-> "resolve", args |-> [handle |-> h, mode |-> m], out |-> <<>>] :
        h \in Handles, m \in ResolveHints}

transportVars == <<protocol, readVars, writeVars, termVars, loopVars,
                   readerReg, writerReg, ready, delivered, started, closes,
                   raised>>

\* The resolver is called by the constructor, before the transport takes
\* any step.
FileInit ==
    /\ probe \in EqCalls \cup EncodingCalls \cup ModeCalls \cup ResolveCalls
    /\ protocol = "p1"
    /\ input_buf = <<>>
    /\ input_decoder = <<>>
    /\ output_buf = <<>>
    /\ isatty = FALSE
    /\ attrBefore = <<>>
    /\ saved_attr = <<>>
    /\ termAttr = <<>>
    /\ canWatchIn = TRUE
    /\ canWatchOut = TRUE
    /\ readerReg = FALSE
    /\ writerReg = FALSE
    /\ ready = <<>>
    /\ delivered = <<>>
    /\ started = FALSE
    /\ inputStream = <<>>
    /\ eof = FALSE
    /\ written = <<>>
    /\ sink = <<>>
    /\ closes = 0
    /\ restores = 0
    /\ raised = None

\* self._input == self._output
CallEq ==
    /\ probe.op = "eq"
    /\ probe.out = <<>>
    /\ probe' = [probe EXCEPT
                    !.out = <<FileEq(probe.args.self, probe.args.other)>>]
    /\ UNCHANGED transportVars

\* self._determine_encoding(encoding)
CallDetermineEncoding ==
    /\ probe.op = "encoding"
    /\ probe.out = <<>>
    /\ probe' = [probe EXCEPT
                    !.out = <<DetermineEncoding(probe.args.encoding,
                                                probe.args.text,
                                                probe.args.fd)>>]
    /\ UNCHANGED transportVars

\* mode, accmode = self._determine_mode(mode)
CallDetermineMode ==
    /\ probe.op = "mode"
    /\ probe.out = <<>>
    /\ probe' = [probe EXCEPT
                    !.out = <<DetermineMode(probe.args.mode,
                                            probe.args.fdflags)>>]
    /\ UNCHANGED transportVars

\* _File(filelike, mode): the mode is determined and the layers reconciled.
CallResolve ==
    /\ probe.op = "resolve"
    /\ probe.out = <<>>
    /\ probe' = [probe EXCEPT
                    !.out = <<Resolve(probe.args.handle, probe.args.mode)>>]
    /\ UNCHANGED transportVars

FileNext ==
    CallEq \/ CallDetermineEncoding \/ CallDetermineMode \/ CallResolve

FileSpec == FileInit /\ [][FileNext]_vars

\* C14: two resolved descriptors compare equal exactly when they share an
\* identical text, buffered or raw view, or both have a file descriptor and
\* the two are the same number or have the same device and inode.
SharesView(f, g) ==
    \/ f.text # None /\ f.text = g.text
    \/ f.bytes # None /\ f.bytes = g.bytes
    \/ f.raw # None /\ f.raw = g.raw

SameDescriptor(f, g) ==
    /\ f.fd # <<>>
    /\ g.fd # <<>>
    /\ f.fd = g.fd \/ Fstat(f.fd[1]) = Fstat(g.fd[1])

EqualIffSameStream ==
    (probe.op = "eq" /\ probe.out # <<>>)
        => probe.out[1] = (SharesView(probe.args.self, probe.args.other)
                           \/ SameDescriptor(probe.args.self,
                                             probe.args.other))

\* Two descriptors that share no view and have different descriptor numbers
\* were found equal through device and inode.
EqualIffSameStreamWitness ==
    /\ probe.op = "eq"
    /\ probe.out = <<TRUE>>
    /\ ~SharesView(probe.args.self, probe.args.other)
    /\ probe.args.self.fd # probe.args.other.fd

\* C19: the resolved encoding is the first present one of the explicit hint,
\* the text layer's encoding, the device encoding of the descriptor and
\* 'utf-8'.
FirstPresent(candidates) ==
    candidates[CHOOSE i \in 1..Len(candidates) :
                   /\ candidates[i] # None
                   /\ \A j \in 1..(i - 1) : candidates[j] = None]

EncodingIsFirstPresent ==
    (probe.op = "encoding" /\ probe.out # <<>>)
        => probe.out[1] =
            FirstPresent(<<probe.args.encoding,
                           IF probe.args.text = <<>> THEN None
                           ELSE probe.args.text[1],
                           IF probe.args.fd = <<>> THEN None
                           ELSE DeviceEncoding(probe.args.fd[1]),
                           "utf-8">>)

\* No hint, a text layer with an encoding and a terminal with a code page:
\* the text layer's encoding was taken.
EncodingIsFirstPresentWitness ==
    /\ probe.op = "encoding"
    /\ probe.args.encoding = None
    /\ probe.args.text = <<"ascii">>
    /\ probe.args.fd = <<0>>
    /\ probe.out = <<"ascii">>

\* C20: a mode hint is accepted exactly when it contains exactly one of r, w,
\* x and a; r alone gives read-only, w, x or a alone write-only, any of them
\* with + read-write; every other hint ends with the invalid-mode error and
\* yields neither mode nor access mode.
Kinds(mode) == {c \in {"r", "w", "x", "a"} : Contains(mode, c)}

ModeHintAccepted ==
    (probe.op = "mode" /\ probe.out # <<>> /\ probe.args.mode # <<>>)
        => LET hint == probe.args.mode[1]
               res == probe.out[1]
           IN  IF Cardinality(Kinds(hint)) = 1
               THEN /\ res.raised = None
                    /\ res.accmode =
                        <<IF Contains(hint, "+") THEN O_RDWR
                          ELSE IF Kinds(hint) = {"r"} THEN O_RDONLY
                          ELSE O_WRONLY>>
               ELSE /\ res.raised = "ValueError"
                    /\ res.mode = <<>>
                    /\ res.accmode = <<>>

\* The hint 'x+' was accepted as read-write.
ModeHintAcceptedWitness ==
    /\ probe.op = "mode"
    /\ probe.out # <<>>
    /\ probe.args.mode = << <<"x", "+">> >>
    /\ probe.out[1].accmode = <<O_RDWR>>

\* ---------------------------------------------------- refused registrations

AddReaderHasRun == \A i \in 1..Len(ready) : ready[i].kind # "_add_reader"

\* C15: a registration the loop refuses with PermissionError does not let the
\* error out of _add_reader or write(); connection_made is delivered all the
\* same and write() has queued its chunk; the refused callback never runs:
\* nothing is ever read, respectively nothing ever reaches the sink.
RefusalIsSwallowed ==
    /\ raised # "PermissionError"
    /\ AddReaderHasRun
        => \E i \in 1..Len(delivered) : delivered[i].kind = "connection_made"
    /\ ~canWatchIn => ~readerReg /\ inputStream = <<>> /\ ~eof
    /\ ~canWatchOut
        => ~writerReg /\ sink = <<>> /\ Flatten(output_buf) = written

\* Both registrations were refused: _add_reader has run, connection_made was
\* delivered before it, and a write() has left its chunk in the queue.
RefusalIsSwallowedWitness ==
    /\ ~canWatchIn
    /\ ~canWatchOut
    /\ AddReaderHasRun
    /\ output_buf # <<>>
    /\ closes = 0

\* ------------------------------------------------------------------- turns

\* C16: the constructor delivers nothing itself; a step that delivers a
\* protocol call is a turn of its own, which takes the handle at the head of
\* the loop's FIFO and is neither a read-ready nor a write-ready callback nor
\* schedules anything; and the protocol calls delivered or still pending
\* only ever grow at the end, so they are delivered in scheduling order.
DeferredInOrder ==
    /\ delivered = <<>>
    /\ [][/\ delivered' # delivered
              => /\ ready # <<>>
                 /\ delivered' = Append(delivered, Head(ready))
                 /\ ready' = Tail(ready)
                 /\ UNCHANGED <<readVars, writeVars>>
          /\ IsPrefix(Scheduled, Scheduled')]_vars

\* Two lines of one read were delivered, in their order, after connection_made.
DeferredInOrderWitness ==
    /\ Len(delivered) = 3
    /\ inputStream = <<97, NL, NL>>
    /\ delivered[2].arg = <<97>>
    /\ delivered[3].arg = <<>>

\* ------------------------------------------------------- write-ready turns

\* C17: a write-ready turn in which the sink accepts nothing is possible
\* whenever the writer is registered and the queue is not empty, and it leaves
\* the queue, the sink, both registrations and everything else of the
\* transport as it was.
ZeroWriteChangesNothing ==
    (writerReg /\ output_buf # <<>>)
        => /\ ENABLED OutputAvailable(0)
           /\ ~ENABLED (/\ OutputAvailable(0)
                        /\ ~UNCHANGED <<protocol, readVars, writeVars,
                                        termVars, loopVars, readerReg,
                                        writerReg, ready, delivered, closes>>)

\* Two chunks are queued and the only callbacks that have run so far are
\* write-ready turns, none of which wrote a byte.
ZeroWriteWitness ==
    /\ started
    /\ writerReg
    /\ ~readerReg
    /\ delivered = <<>>
    /\ ~AddReaderHasRun
    /\ sink = <<>>
    /\ Len(output_buf) = 2

\* C18: a write-ready turn hands at most one slice of the front chunk to the
\* sink: the bytes a step adds to the sink are a prefix of the front chunk, no
\* longer than the slice, and a chunk longer than the slice stays at the
\* front with all but at most one slice of it left, so that n bytes take at
\* least n / slice turns, rounded up.
OneSlicePerTurn ==
    [][sink' # sink
        => LET n == Len(sink') - Len(sink)
           IN  /\ output_buf # <<>>
               /\ n <= WriteSize
               /\ n <= Len(Head(output_buf))
               /\ sink' = sink \o Take(Head(output_buf), n)
               /\ Len(Head(output_buf)) > WriteSize
                    => /\ output_buf' # <<>>
                       /\ Len(Head(output_buf'))
                            >= Len(Head(output_buf)) - WriteSize]_vars

\* One full slice of a longer chunk has reached the sink and the rest of the
\* chunk is what the queue holds.
OneSlicePerTurnWitness ==
    /\ Len(sink) = WriteSize
    /\ Len(output_buf) = 1
    /\ sink \o output_buf[1] = written
    /\ written = Encode(<<233, 97>>)

\* -------------------------------------------------------- the layered views

Resolved ==
    /\ probe.op = "resolve"
    /\ probe.out # <<>>
    /\ probe.out[1].raised = None
    /\ probe.out[1].fd # <<>>

ReportsAccessMode(view, accmode) ==
    view[1].mode # <<>> => Accmode(view[1].mode[1]).accmode = <<accmode>>

\* The part of C21 that holds: a resolved handle with a descriptor has all
\* three views, and every view with a mode attribute reports the resolved
\* access mode.
ViewsPresentWithMode ==
    Resolved
        => LET st == probe.out[1]
           IN  /\ st.text # <<>> /\ st.bytes # <<>> /\ st.raw # <<>>
               /\ ReportsAccessMode(st.text, st.accmode)
               /\ ReportsAccessMode(st.bytes, st.accmode)
               /\ ReportsAccessMode(st.raw, st.accmode)

\* C21: after resolving a handle that has a descriptor the three views are
\* present, every view that reports a mode reports the resolved access mode,
\* and the text view wraps the descriptor's buffered view and the buffered
\* view its raw view.
LayersReconciled ==
    Resolved
        => LET st == probe.out[1]
           IN  /\ st.text # <<>> /\ st.bytes # <<>> /\ st.raw # <<>>
               /\ ReportsAccessMode(st.text, st.accmode)
               /\ ReportsAccessMode(st.bytes, st.accmode)
               /\ ReportsAccessMode(st.raw, st.accmode)
               /\ st.text[1].over = st.bytes[1].src
               /\ st.bytes[1].over = st.raw[1].src

\* ------------------------------------------------------------ the drain

\* C22 as stated: once the consumer has stopped writing, the queue is
\* eventually empty with the writer registration removed, for good.
DrainsAndDeregisters == <>[](output_buf = <<>> /\ ~writerReg)

\* C22, where the loop accepted the writer registration: the queue is
\* eventually empty and the writer registration removed, and both stay so.
DrainsWhenRegistered == canWatchOut => DrainsAndDeregisters

\* Everything written has reached the sink and the write-ready callback that
\* found the queue empty has removed the writer.
DrainsWhenRegisteredWitness ==
    /\ canWatchOut
    /\ written # <<>>
    /\ sink = written
    /\ output_buf = <<>>
    /\ ~writerReg

\* --------------------------------------------------------- close() and reads

LastIsDataReceived(seq) == seq # <<>> /\ seq[Len(seq)].kind = "data_received"

\* C23: once close() has been called no step delivers a data_received to the
\* protocol, and no callback ends with the AttributeError of looking a method
\* up on the cleared protocol reference.
NoDeliveryAfterClose ==
    /\ [](raised # "AttributeError")
    /\ [][closes >= 1
            => ~(delivered' # delivered /\ LastIsDataReceived(delivered'))]_vars

\* ------------------------------------------------------- chunks of the queue

\* C24: every chunk in the outbound queue is non-empty.
ChunksNonEmpty == \A i \in 1..Len(output_buf) : output_buf[i] # <<>>

\* A short write inside a two-byte character has put the second byte back at
\* the front of the queue.
ChunksNonEmptyWitness ==
    /\ sink = <<195>>
    /\ output_buf = << <<169>> >>

====
